---- MODULE Spec2Model ----
(***************************************************************************)
(* A model of prophet_forecast_script.py: the ProphetForecaster pipeline   *)
(* (connect, fetch, clean, per-product forecast and save, close), the      *)
(* forecast_data table behind a psycopg2 connection, and the pure parts    *)
(* of clean_and_prepare_data and train_and_forecast.                       *)
(*                                                                         *)
(* Quantities are integers; NULL is the database null.  The capping        *)
(* threshold mean + 3*std is irrational in general, so a capped value is   *)
(* kept symbolically (Thr) and every comparison with the threshold is      *)
(* done on integers (sum, sum of squares, count).                          *)
(***************************************************************************)
EXTENDS Integers, Sequences, FiniteSets, TLC

VARIABLES
    pc,                   \* position of the running code
    connection,           \* self.connection: "none", "open", "broken", "closed"
    inTxn,                \* psycopg2 has a transaction open on the connection
    committed,            \* forecast_data as committed in the database
    work,                 \* forecast_data as the open transaction sees it
    sales_data,           \* the fetched records (run_forecasting_for_user)
    cleaned_data,         \* the cleaned series, in dict (insertion) order
    idx,                  \* position of the product loop in cleaned_data
    total_products,       \* run_forecasting_for_user local: << >> or << n >>
    successful_forecasts, \* run_forecasting_for_user local: << >> or << n >>
    product_id,           \* the product being forecast and saved
    forecast_results,     \* result of train_and_forecast for that product
    cursor,               \* save_forecasts_to_database local: "unbound", "open"
    expires_at,           \* save_forecasts_to_database local
    raised,               \* the exception propagating / last caught ("none")
    exit_code,            \* main's exit: << >> (running), << 0 >>, << 1 >>
    output,               \* what main printed: "none", "success", "failed"
    hist,                 \* history of the run, for stating the properties
    arg,                  \* argument of the function under check
    ret                   \* its result

vars == << pc, connection, inTxn, committed, work, sales_data, cleaned_data,
           idx, total_products, successful_forecasts, product_id,
           forecast_results, cursor, expires_at, raised, exit_code, output,
           hist, arg, ret >>

NULL == [null |-> TRUE]

(***************************************************************************)
(* Bounds of the model.                                                    *)
(***************************************************************************)
NumProducts == 3    \* products of the tenant: 1..NumProducts
MaxElapsed == 1     \* hours the clock can advance between two readings
MaxCalls == 2       \* calls of save_forecasts_to_database in SpecSave
MaxLen == 3         \* records of one product in SpecClean (short inputs)
LongLen == 11       \* records of one product in SpecClean (long inputs)
MaxHistory == 2     \* training rows of a series in SpecTrend: 2..MaxHistory+1

Products == 1 .. NumProducts
Users == {"u1"}

(***************************************************************************)
(* clean_and_prepare_data.  A record of the frame is                       *)
(* [product_id, date, quantity_sold], quantity_sold Qty(v) or NullQty.     *)
(* A cleaned row is [ds, y]; y is Exact(v) for a quantity kept as it is,   *)
(* or Thr(n, sum, sumsq) for a quantity capped to the threshold            *)
(* mean + 3*std of the n quantities with that sum and sum of squares.      *)
(***************************************************************************)
Qty(v) == [isnull |-> FALSE, v |-> v]
NullQty == [isnull |-> TRUE, v |-> 0]

Exact(v) == [kind |-> "int", v |-> v, n |-> 0, sum |-> 0, sumsq |-> 0]
Thr(n, s, q) == [kind |-> "thr", v |-> 0, n |-> n, sum |-> s, sumsq |-> q]

\* pd.to_datetime on a date: midnight of that day, in seconds
ToDatetime(date) == date * (24 * 60 * 60)

\* df.groupby('product_id'): the group keys, ascending
RECURSIVE GroupKeys(_, _)
GroupKeys(df, p) ==
    IF p > NumProducts THEN << >>
    ELSE (IF \E i \in 1 .. Len(df) : df[i].product_id = p
          THEN << p >> ELSE << >>) \o GroupKeys(df, p + 1)

\* the rows of one group, in frame order
RECURSIVE Group(_, _)
Group(df, p) ==
    IF df = << >> THEN << >>
    ELSE (IF Head(df).product_id = p THEN << Head(df) >> ELSE << >>)
         \o Group(Tail(df), p)

\* product_data['ds'] = to_datetime(date); product_data['y'] = quantity_sold
RECURSIVE PrepareColumns(_)
PrepareColumns(group) ==
    IF group = << >> THEN << >>
    ELSE << [ds |-> ToDatetime(Head(group).date), y |-> Head(group).quantity_sold] >>
         \o PrepareColumns(Tail(group))

\* mutant: drop_duplicates(subset=['ds'], keep='last')
RECURSIVE DropDuplicatesKeepLast(_)
DropDuplicatesKeepLast(rows) ==
    IF rows = << >> THEN << >>
    ELSE LET rest == DropDuplicatesKeepLast(Tail(rows))
         IN  IF \E i \in 1 .. Len(rest) : rest[i].ds = Head(rows).ds
             THEN rest ELSE << Head(rows) >> \o rest

\* DataFrame.drop_duplicates(subset=['ds']) with the default keep='first'
RECURSIVE DropDuplicates(_)
DropDuplicates(rows) ==
    IF rows = << >> THEN << >>
    ELSE LET init == DropDuplicates(SubSeq(rows, 1, Len(rows) - 1))
             last == rows[Len(rows)]
         IN  IF \E i \in 1 .. Len(init) : init[i].ds = last.ds
             THEN init ELSE Append(init, last)

\* insert a row into rows sorted by ds, after the rows with the same ds
RECURSIVE InsertSorted(_, _)
InsertSorted(rows, r) ==
    IF rows = << >> THEN << r >>
    ELSE IF r.ds < Head(rows).ds THEN << r >> \o rows
         ELSE << Head(rows) >> \o InsertSorted(Tail(rows), r)

\* DataFrame.sort_values('ds'): ascending; rows with equal ds keep their order
RECURSIVE SortValues(_)
SortValues(rows) ==
    IF rows = << >> THEN << >>
    ELSE InsertSorted(SortValues(SubSeq(rows, 1, Len(rows) - 1)), rows[Len(rows)])

\* product_data['y'].fillna(0)
RECURSIVE FillNa(_)
FillNa(rows) ==
    IF rows = << >> THEN << >>
    ELSE << [ds |-> Head(rows).ds,
             y |-> IF Head(rows).y.isnull THEN 0 ELSE Head(rows).y.v] >>
         \o FillNa(Tail(rows))

RECURSIVE SumY(_)
SumY(rows) == IF rows = << >> THEN 0 ELSE Head(rows).y + SumY(Tail(rows))

RECURSIVE SumSqY(_)
SumSqY(rows) ==
    IF rows = << >> THEN 0 ELSE Head(rows).y * Head(rows).y + SumSqY(Tail(rows))

\* std_sales > 0 for n values with sum s and sum of squares q (sample std):
\* the variance is (n*q - s*s) / (n*(n-1))
StdPositive(n, s, q) == n >= 2 /\ n * q - s * s > 0

\* v > mean + 3*std  <=>  n*v - s > 0  and  (n*v - s)^2 * (n-1) > 9*n*(n*q - s*s)
ExceedsThreshold(v, n, s, q) ==
    /\ n * v - s > 0
    /\ (n * v - s) * (n * v - s) * (n - 1) > 9 * n * (n * q - s * s)

\* mean + 3*std >= 0
ThresholdNonNegative(n, s, q) ==
    s >= 0 \/ s * s * (n - 1) <= 9 * n * (n * q - s * s)

\* lines 120-124: values above mean + 3*std are set to it
RECURSIVE CapRows(_, _, _, _)
CapRows(rows, n, s, q) ==
    IF rows = << >> THEN << >>
    ELSE << [ds |-> Head(rows).ds,
             y |-> IF StdPositive(n, s, q) /\ ExceedsThreshold(Head(rows).y, n, s, q)
                   THEN Thr(n, s, q) ELSE Exact(Head(rows).y)] >>
         \o CapRows(Tail(rows), n, s, q)

RemoveOutliers(rows) == CapRows(rows, Len(rows), SumY(rows), SumSqY(rows))

\* the body of the loop up to the length check (lines 104-112)
PrepareGroup(group) == FillNa(SortValues(DropDuplicates(PrepareColumns(group))))

\* mutant: len(product_data) < 1
InsufficientBelowOne(product_data) == Len(product_data) < 1

\* len(product_data) < 2 (line 115)
Insufficient(product_data) == Len(product_data) < 2

\* clean_and_prepare_data: the cleaned series in dict (insertion) order
RECURSIVE CleanGroups(_, _)
CleanGroups(df, keys) ==
    IF keys = << >> THEN << >>
    ELSE LET product_data == PrepareGroup(Group(df, Head(keys)))
         IN  (IF Insufficient(product_data) THEN << >>
              ELSE << [product_id |-> Head(keys),
                       data |-> RemoveOutliers(product_data)] >>)
             \o CleanGroups(df, Tail(keys))

clean_and_prepare_data(df) == CleanGroups(df, GroupKeys(df, 1))

(***************************************************************************)
(* SpecClean: clean_and_prepare_data applied to one product's records, in  *)
(* any order, with duplicate dates, null and negative quantities (short    *)
(* inputs), and to LongLen records of distinct dates (long inputs: a       *)
(* value is above mean + 3*std only among at least 11 values).             *)
(***************************************************************************)
ShortDates == 1 .. 2
ShortQuantities == {NullQty, Qty(-1), Qty(0), Qty(5)}
LongQuantities == {Qty(0), Qty(9)}

ShortRecords ==
    { [product_id |-> 1, date |-> d, quantity_sold |-> q] :
        d \in ShortDates, q \in ShortQuantities }

ShortInputs == UNION { [1 .. n -> ShortRecords] : n \in 0 .. MaxLen }

LongInputs ==
    { [i \in 1 .. LongLen |->
         [product_id |-> 1, date |-> (LongLen + 1) - i, quantity_sold |-> f[i]]] :
      f \in [1 .. LongLen -> LongQuantities] }

Idle ==
    /\ connection = "none" /\ inTxn = FALSE /\ committed = {} /\ work = {}
    /\ sales_data = << >> /\ cleaned_data = << >> /\ idx = 0
    /\ total_products = << >> /\ successful_forecasts = << >>
    /\ product_id = 0 /\ forecast_results = NULL /\ cursor = "unbound"
    /\ expires_at = 0 /\ raised = "none" /\ exit_code = << >>
    /\ output = "none"

pipelineVars ==
    << connection, inTxn, committed, work, sales_data, cleaned_data, idx,
       total_products, successful_forecasts, product_id, forecast_results,
       cursor, expires_at, raised, exit_code, output, hist >>

InitClean ==
    /\ Idle
    /\ hist = NULL
    /\ pc = "call_clean"
    /\ arg \in ShortInputs \cup LongInputs
    /\ ret = << >>

ApplyClean ==
    /\ pc = "call_clean"
    /\ ret' = clean_and_prepare_data(arg)
    /\ pc' = "returned"
    /\ UNCHANGED << arg, pipelineVars >>

NextClean == ApplyClean

SpecClean == InitClean /\ [][NextClean]_vars

(***************************************************************************)
(* train_and_forecast.  Prophet is an external library: a fitted model is  *)
(* one of Models, a linear trend m + k*row in hundredths of a unit, the    *)
(* same for every prediction made with it; yhat is taken equal to the      *)
(* trend.  A prediction over N rows is the pair of columns for rows 1..N.  *)
(* The interval bounds, mae, mape and confidence_score are computed from   *)
(* the same prediction and decide nothing modelled here; only the 'value'  *)
(* of each period and trend_status are kept.                               *)
(***************************************************************************)
Slopes == {-1, 0, 1}
Models == { [k |-> k, m |-> 100] : k \in Slopes }

\* forecast_periods=[7, 30, 90, 365]
DefaultPeriods == << 7, 30, 90, 365 >>

\* head(30) / tail(30)
TrendRows == 30

\* model.predict(future): the trend (and yhat) of one row
PredictRow(model, row) == model.m + model.k * row

\* the sum of a column over rows lo..hi
RECURSIVE SumRows(_, _, _)
SumRows(model, lo, hi) ==
    IF lo > hi THEN 0
    ELSE IF lo = hi THEN PredictRow(model, lo)
    ELSE LET mid == (lo + hi) \div 2
         IN  SumRows(model, lo, mid) + SumRows(model, mid + 1, hi)

\* Python's round() of x hundredths: to the nearest integer, ties to even
Round(x) ==
    LET q == x \div 100
        r == x % 100
    IN  IF r > 50 \/ (r = 50 /\ q % 2 = 1) THEN q + 1 ELSE q

Max0(x) == IF x < 0 THEN 0 ELSE x

\* lines 172-188 for one period: the rows of the prediction and the
\* rounded sum of yhat over its last `period` rows
PeriodForecast(model, n, period) ==
    [rows |-> n + period,
     value |-> Round(Max0(SumRows(model, n + 1, n + period)))]

\* the for loop of lines 170-193: the forecasts dict and the `forecast`
\* variable as the loop leaves it (the number of rows of the last
\* prediction made; 0 rows: no prediction was made)
RECURSIVE ForecastLoop(_, _, _, _)
ForecastLoop(model, n, periods, acc) ==
    IF periods = << >> THEN acc
    ELSE LET f == PeriodForecast(model, n, Head(periods))
         IN  ForecastLoop(model, n, Tail(periods),
                 [forecasts |-> [p \in DOMAIN acc.forecasts \cup {Head(periods)} |->
                                   IF p = Head(periods) THEN f.value
                                   ELSE acc.forecasts[p]],
                  forecast |-> f.rows])

\* lines 202-208 on a prediction of `rows` rows:
\* mean(tail(30).trend) - mean(head(30).trend) against +0.1 and -0.1
TrendStatus(model, rows) ==
    LET c == IF rows < TrendRows THEN rows ELSE TrendRows
        tailSum == SumRows(model, rows - c + 1, rows)
        headSum == SumRows(model, 1, c)
        \* (tailSum/c - headSum/c) / 100 > 1/10
        diff10 == 10 * (tailSum - headSum)
    IN  IF diff10 > 100 * c THEN "trending"
        ELSE IF diff10 < -(100 * c) THEN "declining"
        ELSE "stable"

\* train_and_forecast(product_data, forecast_periods) with the model the
\* fit produced; n = len(product_data)
train_and_forecast(model, n, forecast_periods) ==
    LET loop == ForecastLoop(model, n, forecast_periods,
                             [forecasts |-> << >>, forecast |-> 0])
    IN  [forecasts |-> loop.forecasts,
         trend_status |-> TrendStatus(model, loop.forecast)]

\* what train_and_forecast(product_data) can return for a series of n rows,
\* one result per model the fit can produce (the results for the shortest
\* series, 2 rows, are computed once)
TwoRowResults == { train_and_forecast(model, 2, DefaultPeriods) : model \in Models }

Results(n) ==
    IF n = 2 THEN TwoRowResults
    ELSE { train_and_forecast(model, n, DefaultPeriods) : model \in Models }

(***************************************************************************)
(* SpecTrend: train_and_forecast applied to a series of n rows with every  *)
(* non-empty list of distinct horizons among 7, 30, 90, 365, in any order. *)
(***************************************************************************)
Horizons == {7, 30, 90, 365}

PeriodLists ==
    { l \in UNION { [1 .. len -> Horizons] : len \in 1 .. Cardinality(Horizons) } :
        \A i, j \in DOMAIN l : i # j => l[i] # l[j] }

InitTrend ==
    /\ Idle
    /\ hist = NULL
    /\ pc = "call_train"
    /\ arg \in [model : Models, n : 2 .. MaxHistory + 1, periods : PeriodLists]
    /\ ret = NULL

ApplyTrain ==
    /\ pc = "call_train"
    /\ ret' = train_and_forecast(arg.model, arg.n, arg.periods)
    /\ pc' = "returned"
    /\ UNCHANGED << arg, pipelineVars >>

NextTrend == ApplyTrain

SpecTrend == InitTrend /\ [][NextTrend]_vars

(***************************************************************************)
(* The pipeline: main, run_forecasting_for_user and the methods it calls.  *)
(* psycopg2 opens a transaction with the first statement executed on a     *)
(* connection (autocommit is off) and keeps it open until commit() or      *)
(* rollback(); close() discards an open transaction.  A connection the     *)
(* client has found lost is "broken": every later call on it raises.       *)
(***************************************************************************)
HoursToExpiry == 24    \* timedelta(hours=24)

\* what the fetch can return for one product, ordered by date as the query
\* orders it: no record, two records of one date, three records of two dates
SalesRecord(p, d, q) == [product_id |-> p, date |-> d, quantity_sold |-> Qty(q)]

ProductRecords(p) ==
    { << >>,
      << SalesRecord(p, 1, 10), SalesRecord(p, 1, 10) >>,
      << SalesRecord(p, 1, 10), SalesRecord(p, 1, 10), SalesRecord(p, 2, 12) >> }

\* the frames the query can return: ORDER BY p.name, sd.date
RECURSIVE WellFormedFrames(_)
WellFormedFrames(p) ==
    IF p > NumProducts THEN { << >> }
    ELSE { head \o rest : head \in ProductRecords(p),
                          rest \in WellFormedFrames(p + 1) }

\* date 0 stands for a value pd.to_datetime cannot parse: it raises
Malformed(df) == \E i \in 1 .. Len(df) : df[i].date = 0

Frames == WellFormedFrames(1) \cup { << SalesRecord(1, 0, 10) >> }

\* sales_data.empty (line 298)
Empty(df) == df = << >>

\* mutant: "cleaned_data is None", never true of a dict
NothingToForecastNever(cleaned) == FALSE

\* not cleaned_data (line 305)
NothingToForecast(cleaned) == cleaned = << >>

\* the row save_forecasts_to_database inserts (lines 259-270)
Summary(user_id, p, results, generated_at, expires) ==
    [user_id |-> user_id, product_id |-> p,
     forecast_7d |-> results.forecasts[7],
     forecast_30d |-> results.forecasts[30],
     forecast_90d |-> results.forecasts[90],
     forecast_365d |-> results.forecasts[365],
     trend_status |-> results.trend_status,
     generated_at |-> generated_at, expires_at |-> expires]

\* mutant: a DELETE that matches no row
DeleteNoRows(table, user_id, p) == table

\* DELETE FROM forecast_data WHERE user_id = %s AND product_id = %s
DeleteRows(table, user_id, p) ==
    { r \in table : ~(r.user_id = user_id /\ r.product_id = p) }

\* INSERT INTO forecast_data (...) VALUES (...)
InsertRow(table, row) == table \cup {row}

\* the history of a run starts empty
NoHistory ==
    [connects |-> 0,         \* connections psycopg2.connect returned
     closes |-> 0,           \* calls of connection.close()
     txnAtClose |-> FALSE,   \* a transaction was open when close() was called
     fetched |-> FALSE,      \* fetch_sales_data returned
     log |-> {},             \* what run_forecasting_for_user logged
     attempted |-> {},       \* products train_and_forecast was called for
     fitFailed |-> {},       \* products train_and_forecast raised for
     storeOps |-> {},        \* statements sent for forecast_data
     calls |-> 0,            \* calls of save_forecasts_to_database (SpecSave)
     before |-> {},          \* forecast_data as committed when the call began
     row |-> NULL,           \* the row the call inserted
     failedAt |-> "none",    \* the statement of the call that raised
     rolledBack |-> FALSE,   \* the call called connection.rollback()
     writes |-> << >>]       \* the rows of the calls that returned, in order

Init ==
    /\ Idle
    /\ pc = "main"
    /\ arg \in Users
    /\ ret = << >>
    /\ hist = NoHistory

\* connect_to_database (lines 44-51), called at line 293
Connect ==
    /\ pc = "main"
    /\ \/ /\ connection' = "open"
          /\ hist' = [hist EXCEPT !.connects = @ + 1]
          /\ pc' = "fetch"
          /\ UNCHANGED raised
       \/ /\ raised' = "ConnectionError"
          /\ pc' = "finally"
          /\ UNCHANGED << connection, hist >>
    /\ UNCHANGED << inTxn, committed, work, sales_data, cleaned_data, idx,
                    total_products, successful_forecasts, product_id,
                    forecast_results, cursor, expires_at, exit_code, output,
                    arg, ret >>

\* fetch_sales_data (lines 53-83) and the empty check (lines 296-300)
Fetch ==
    /\ pc = "fetch"
    /\ \/ \E df \in Frames :
            /\ sales_data' = df
            /\ inTxn' = TRUE
            /\ IF Empty(df)
               THEN /\ hist' = [hist EXCEPT !.fetched = TRUE,
                                            !.log = @ \cup {"No sales data found"}]
                    /\ pc' = "finally"
               ELSE /\ hist' = [hist EXCEPT !.fetched = TRUE]
                    /\ pc' = "clean"
            /\ UNCHANGED << connection, raised >>
       \/ /\ inTxn' = TRUE
          /\ raised' = "DatabaseError"
          /\ pc' = "finally"
          /\ UNCHANGED << connection, sales_data, hist >>
       \/ /\ connection' = "broken"
          /\ inTxn' = FALSE
          /\ raised' = "OperationalError"
          /\ pc' = "finally"
          /\ UNCHANGED << sales_data, hist >>
    /\ UNCHANGED << committed, work, cleaned_data, idx, total_products,
                    successful_forecasts, product_id, forecast_results,
                    cursor, expires_at, exit_code, output, arg, ret >>

\* clean_and_prepare_data and the empty check (lines 303-311)
Clean ==
    /\ pc = "clean"
    /\ IF Malformed(sales_data)
       THEN /\ raised' = "ValueError"
            /\ pc' = "finally"
            /\ UNCHANGED << cleaned_data, total_products, successful_forecasts,
                            idx, hist >>
       ELSE LET cleaned == clean_and_prepare_data(sales_data)
            IN  /\ cleaned_data' = cleaned
                /\ IF NothingToForecast(cleaned)
                   THEN /\ hist' = [hist EXCEPT
                                      !.log = @ \cup {"No valid data for forecasting"}]
                        /\ pc' = "finally"
                        /\ UNCHANGED << total_products, successful_forecasts, idx >>
                   ELSE /\ total_products' = << Len(cleaned) >>
                        /\ successful_forecasts' = << 0 >>
                        /\ idx' = 1
                        /\ pc' = "loop"
                        /\ UNCHANGED hist
                /\ UNCHANGED raised
    /\ UNCHANGED << connection, inTxn, committed, work, sales_data, product_id,
                    forecast_results, cursor, expires_at, exit_code, output,
                    arg, ret >>

\* one turn of the loop, train_and_forecast returning (lines 313-318)
Forecast ==
    /\ pc = "loop"
    /\ idx <= Len(cleaned_data)
    /\ forecast_results' \in Results(Len(cleaned_data[idx].data))
    /\ product_id' = cleaned_data[idx].product_id
    /\ hist' = [hist EXCEPT !.attempted = @ \cup {cleaned_data[idx].product_id}]
    /\ pc' = "save_cursor"
    /\ UNCHANGED << connection, inTxn, committed, work, sales_data, cleaned_data,
                    idx, total_products, successful_forecasts, cursor,
                    expires_at, raised, exit_code, output, arg, ret >>

\* one turn of the loop, train_and_forecast raising: caught at line 325
ForecastFails ==
    /\ pc = "loop"
    /\ idx <= Len(cleaned_data)
    /\ product_id' = cleaned_data[idx].product_id
    /\ hist' = [hist EXCEPT !.attempted = @ \cup {cleaned_data[idx].product_id},
                            !.fitFailed = @ \cup {cleaned_data[idx].product_id}]
    /\ idx' = idx + 1
    /\ UNCHANGED << pc, connection, inTxn, committed, work, sales_data,
                    cleaned_data, total_products, successful_forecasts,
                    forecast_results, cursor, expires_at, raised, exit_code,
                    output, arg, ret >>

\* the loop is over (line 329)
LoopEnd ==
    /\ pc = "loop"
    /\ idx > Len(cleaned_data)
    /\ hist' = [hist EXCEPT !.log = @ \cup {"Forecasting completed"}]
    /\ pc' = "finally"
    /\ UNCHANGED << connection, inTxn, committed, work, sales_data, cleaned_data,
                    idx, total_products, successful_forecasts, product_id,
                    forecast_results, cursor, expires_at, raised, exit_code,
                    output, arg, ret >>

(***************************************************************************)
(* save_forecasts_to_database (lines 229-280), statement by statement.     *)
(* It ends at pc = "save_returned" or, raising, at pc = "save_raised".     *)
(***************************************************************************)
\* cursor = self.connection.cursor() (line 239): raises on a lost connection
SaveCursor ==
    /\ pc = "save_cursor"
    /\ hist' = [hist EXCEPT !.before = committed, !.row = NULL,
                            !.rolledBack = FALSE,
                            !.failedAt = IF connection = "open" THEN "none"
                                         ELSE "cursor",
                            !.storeOps = @ \cup {"cursor"}]
    /\ IF connection = "open"
       THEN /\ cursor' = "open"
            /\ pc' = "save_delete"
            /\ UNCHANGED raised
       ELSE /\ raised' = "InterfaceError"
            /\ pc' = "save_except"
            /\ UNCHANGED cursor
    /\ UNCHANGED << connection, inTxn, committed, work, sales_data, cleaned_data,
                    idx, total_products, successful_forecasts, product_id,
                    forecast_results, expires_at, exit_code, output, arg, ret >>

\* cursor.execute(delete_query, ...) (line 246), then
\* expires_at = datetime.now() + timedelta(hours=24) (line 257).  Times are
\* in hours from this first reading of the clock in the call.
SaveDelete ==
    /\ pc = "save_delete"
    /\ \/ LET now == 0
          IN  /\ work' = DeleteRows(work, arg, product_id)
              /\ inTxn' = TRUE
              /\ expires_at' = now + HoursToExpiry
              /\ hist' = [hist EXCEPT !.storeOps = @ \cup {"delete"}]
              /\ pc' = "save_insert"
              /\ UNCHANGED << connection, raised >>
       \/ /\ inTxn' = TRUE
          /\ raised' = "DatabaseError"
          /\ hist' = [hist EXCEPT !.storeOps = @ \cup {"delete"},
                                  !.failedAt = "delete"]
          /\ pc' = "save_except"
          /\ UNCHANGED << connection, work, expires_at >>
       \/ /\ connection' = "broken"
          /\ inTxn' = FALSE
          /\ work' = committed
          /\ raised' = "OperationalError"
          /\ hist' = [hist EXCEPT !.storeOps = @ \cup {"delete"},
                                  !.failedAt = "delete"]
          /\ pc' = "save_except"
          /\ UNCHANGED expires_at
    /\ UNCHANGED << committed, sales_data, cleaned_data, idx, total_products,
                    successful_forecasts, product_id, forecast_results, cursor,
                    exit_code, output, arg, ret >>

\* cursor.execute(insert_query, (..., datetime.now(), expires_at))
\* (lines 259-270); this second reading of the clock is up to MaxElapsed
\* hours after the first
SaveInsert ==
    /\ pc = "save_insert"
    /\ \/ /\ DOMAIN forecast_results.forecasts = {7, 30, 90, 365}
          /\ \E now \in 0 .. MaxElapsed :
               LET row == Summary(arg, product_id, forecast_results, now, expires_at)
               IN  /\ work' = InsertRow(work, row)
                   /\ hist' = [hist EXCEPT !.row = row,
                                           !.storeOps = @ \cup {"insert"}]
          /\ pc' = "save_commit"
          /\ UNCHANGED << connection, inTxn, raised >>
       \/ /\ raised' = "DatabaseError"
          /\ hist' = [hist EXCEPT !.storeOps = @ \cup {"insert"},
                                  !.failedAt = "insert"]
          /\ pc' = "save_except"
          /\ UNCHANGED << connection, inTxn, work >>
       \/ /\ connection' = "broken"
          /\ inTxn' = FALSE
          /\ work' = committed
          /\ raised' = "OperationalError"
          /\ hist' = [hist EXCEPT !.storeOps = @ \cup {"insert"},
                                  !.failedAt = "insert"]
          /\ pc' = "save_except"
    /\ UNCHANGED << committed, sales_data, cleaned_data, idx, total_products,
                    successful_forecasts, product_id, forecast_results, cursor,
                    expires_at, exit_code, output, arg, ret >>

\* self.connection.commit() (line 272); when it returns, cursor.close()
\* (line 280) and the method returns
SaveCommit ==
    /\ pc = "save_commit"
    /\ \/ /\ committed' = work
          /\ inTxn' = FALSE
          /\ cursor' = "unbound"
          /\ hist' = [hist EXCEPT !.writes = Append(@, hist.row),
                                  !.storeOps = @ \cup {"commit"}]
          /\ pc' = "save_returned"
          /\ UNCHANGED << connection, work, raised >>
       \/ /\ work' = committed
          /\ inTxn' = FALSE
          /\ raised' = "DatabaseError"
          /\ hist' = [hist EXCEPT !.storeOps = @ \cup {"commit"},
                                  !.failedAt = "commit"]
          /\ pc' = "save_except"
          /\ UNCHANGED << connection, committed, cursor >>
       \/ /\ connection' = "broken"
          /\ work' = committed
          /\ inTxn' = FALSE
          /\ raised' = "OperationalError"
          /\ hist' = [hist EXCEPT !.storeOps = @ \cup {"commit"},
                                  !.failedAt = "commit"]
          /\ pc' = "save_except"
          /\ UNCHANGED << committed, cursor >>
    /\ UNCHANGED << sales_data, cleaned_data, idx, total_products,
                    successful_forecasts, product_id, forecast_results,
                    expires_at, exit_code, output, arg, ret >>

\* mutant: no rollback, the statements of the failed call stay pending
RollbackNothing(table) == table

\* self.connection.rollback()
Rollback(table) == committed

\* the except and finally clauses (lines 275-280): rollback() (it raises on a
\* lost connection), then cursor.close(), which raises UnboundLocalError when
\* line 239 raised; the exception raised last is the one that propagates
SaveExcept ==
    /\ pc = "save_except"
    /\ work' = Rollback(work)
    /\ inTxn' = FALSE
    /\ raised' = IF cursor = "unbound" THEN "UnboundLocalError"
                 ELSE IF connection = "broken" THEN "InterfaceError"
                 ELSE raised
    /\ cursor' = "unbound"
    /\ hist' = [hist EXCEPT !.storeOps = @ \cup {"rollback"},
                            !.rolledBack = TRUE]
    /\ pc' = "save_raised"
    /\ UNCHANGED << connection, committed, sales_data, cleaned_data, idx,
                    total_products, successful_forecasts, product_id,
                    forecast_results, expires_at, exit_code, output, arg, ret >>

(***************************************************************************)
(* Back in run_forecasting_for_user and main.                              *)
(***************************************************************************)
\* successful_forecasts += 1 (line 323)
LoopSuccess ==
    /\ pc = "save_returned"
    /\ successful_forecasts' = << successful_forecasts[1] + 1 >>
    /\ idx' = idx + 1
    /\ pc' = "loop"
    /\ UNCHANGED << connection, inTxn, committed, work, sales_data, cleaned_data,
                    total_products, product_id, forecast_results, cursor,
                    expires_at, raised, exit_code, output, hist, arg, ret >>

\* mutant: the handler re-raises, as the outer handler of line 331 does
LoopExceptReraises ==
    /\ pc = "save_raised"
    /\ pc' = "finally"
    /\ UNCHANGED << connection, inTxn, committed, work, sales_data, cleaned_data,
                    idx, total_products, successful_forecasts, product_id,
                    forecast_results, cursor, expires_at, raised, exit_code,
                    output, hist, arg, ret >>

\* except Exception: ... continue (lines 325-327)
LoopExcept ==
    /\ pc = "save_raised"
    /\ raised' = "none"
    /\ idx' = idx + 1
    /\ pc' = "loop"
    /\ UNCHANGED << connection, inTxn, committed, work, sales_data, cleaned_data,
                    total_products, successful_forecasts, product_id,
                    forecast_results, cursor, expires_at, exit_code, output,
                    hist, arg, ret >>

\* self.connection.close()
Close(conn) == "closed"

\* finally: if self.connection: self.connection.close() (lines 334-336)
Finally ==
    /\ pc = "finally"
    /\ IF connection = "none"
       THEN UNCHANGED << connection, inTxn, work, hist >>
       ELSE /\ connection' = Close(connection)
            /\ inTxn' = FALSE
            /\ work' = committed
            /\ hist' = [hist EXCEPT !.closes = @ + 1, !.txnAtClose = inTxn]
    /\ pc' = "main_end"
    /\ UNCHANGED << committed, sales_data, cleaned_data, idx, total_products,
                    successful_forecasts, product_id, forecast_results, cursor,
                    expires_at, raised, exit_code, output, arg, ret >>

\* main (lines 351-357): the message printed and the exit code
MainEnd ==
    /\ pc = "main_end"
    /\ IF raised = "none"
       THEN output' = "success" /\ exit_code' = << 0 >>
       ELSE output' = "failed" /\ exit_code' = << 1 >>
    /\ pc' = "done"
    /\ UNCHANGED << connection, inTxn, committed, work, sales_data, cleaned_data,
                    idx, total_products, successful_forecasts, product_id,
                    forecast_results, cursor, expires_at, raised, hist, arg, ret >>

Next ==
    \/ Connect \/ Fetch \/ Clean
    \/ Forecast \/ ForecastFails \/ LoopEnd
    \/ SaveCursor \/ SaveDelete \/ SaveInsert \/ SaveCommit \/ SaveExcept
    \/ LoopSuccess \/ LoopExcept
    \/ Finally \/ MainEnd

Spec == Init /\ [][Next]_vars

(***************************************************************************)
(* SpecSave: save_forecasts_to_database called up to MaxCalls times on one *)
(* open connection, for any products and any forecast results.             *)
(***************************************************************************)
InitSave ==
    /\ Idle
    /\ pc = "caller"
    /\ arg \in Users
    /\ ret = << >>
    /\ hist = NoHistory

CallSave ==
    /\ pc = "caller"
    /\ hist.calls < MaxCalls
    /\ connection' = IF connection = "none" THEN "open" ELSE connection
    /\ product_id' \in Products
    /\ forecast_results' \in Results(2)
    /\ hist' = [hist EXCEPT !.calls = @ + 1]
    /\ raised' = "none"
    /\ pc' = "save_cursor"
    /\ UNCHANGED << inTxn, committed, work, sales_data, cleaned_data, idx,
                    total_products, successful_forecasts, cursor, expires_at,
                    exit_code, output, arg, ret >>

SaveReturns ==
    /\ pc \in {"save_returned", "save_raised"}
    /\ ret' = << pc >>
    /\ pc' = "caller"
    /\ UNCHANGED << connection, inTxn, committed, work, sales_data, cleaned_data,
                    idx, total_products, successful_forecasts, product_id,
                    forecast_results, cursor, expires_at, raised, exit_code,
                    output, hist, arg >>

NextSave ==
    \/ CallSave \/ SaveReturns
    \/ SaveCursor \/ SaveDelete \/ SaveInsert \/ SaveCommit \/ SaveExcept

SpecSave == InitSave /\ [][NextSave]_vars

(***************************************************************************)
(* What the properties speak of, computed from the fetched records and    *)
(* the history without the operators of the cleaning.                      *)
(***************************************************************************)
FetchedIds(df) == { df[i].product_id : i \in 1 .. Len(df) }

DistinctDates(df, p) ==
    { df[i].date : i \in { j \in 1 .. Len(df) : df[j].product_id = p } }

GoodIds(df) == { p \in FetchedIds(df) : Cardinality(DistinctDates(df, p)) >= 2 }

SkippedIds(df) == FetchedIds(df) \ GoodIds(df)

CleanedIds == { cleaned_data[i].product_id : i \in 1 .. Len(cleaned_data) }

WrittenIds == { hist.writes[i].product_id : i \in 1 .. Len(hist.writes) }

RowsOf(table, u, p) == { r \in table : r.user_id = u /\ r.product_id = p }

RunOver == pc \in {"finally", "main_end", "done"}

\* the records sorted by date ascending, records of one date in input order
RECURSIVE SortedByDate(_)
SortedByDate(recs) ==
    IF recs = << >> THEN << >>
    ELSE LET init == SortedByDate(SubSeq(recs, 1, Len(recs) - 1))
             last == recs[Len(recs)]
             k == Cardinality({ i \in 1 .. Len(init) : init[i].date <= last.date })
         IN  SubSeq(init, 1, k) \o << last >> \o SubSeq(init, k + 1, Len(init))

\* the quantity (null read as 0) of the first record of date d after sorting
FirstAfterSort(recs, d) ==
    LET sorted == SortedByDate(recs)
        first == CHOOSE i \in 1 .. Len(sorted) :
                    /\ sorted[i].date = d
                    /\ \A j \in 1 .. i - 1 : sorted[j].date # d
        q == sorted[first].quantity_sold
    IN  IF q.isnull THEN 0 ELSE q.v

InputDates(recs) == { recs[i].date : i \in 1 .. Len(recs) }

\* the date a cleaned row stands for
DateOf(recs, ds) == CHOOSE d \in InputDates(recs) : ToDatetime(d) = ds

CleanedRows == IF ret = << >> THEN << >> ELSE ret[1].data

MaxOf(l) == CHOOSE x \in { l[i] : i \in DOMAIN l } : \A i \in DOMAIN l : l[i] <= x

(***************************************************************************)
(* C1.  Once cleaning has produced N >= 1 series, no failure of            *)
(* train_and_forecast or save_forecasts_to_database for a product aborts   *)
(* the run: total_products is N, every one of the N products is attempted, *)
(* the run ends without a propagating exception, main prints the success   *)
(* message and exits with code 0, and successful_forecasts is the number   *)
(* of products whose forecast and save both returned.                      *)
(***************************************************************************)
C1_ProductFailuresNeverAbortTheRun ==
    total_products # << >> =>
        /\ total_products = << Len(cleaned_data) >>
        /\ Len(cleaned_data) >= 1
        /\ CleanedIds = GoodIds(sales_data)
        /\ hist.attempted \subseteq CleanedIds
        /\ successful_forecasts[1] <= Cardinality(hist.attempted)
        /\ RunOver =>
             /\ raised = "none"
             /\ "Forecasting completed" \in hist.log
             /\ hist.attempted = CleanedIds
             /\ successful_forecasts = << Cardinality(WrittenIds) >>
             /\ WrittenIds \subseteq hist.attempted \ hist.fitFailed
        /\ pc = "done" => exit_code = << 0 >> /\ output = "success"

\* one of three products fails in fitting: 2 of 3, exit code 0
C1_Witness ==
    /\ pc = "done"
    /\ total_products = << 3 >>
    /\ successful_forecasts = << 2 >>
    /\ Cardinality(hist.fitFailed) = 1
    /\ Cardinality(WrittenIds) = 2
    /\ exit_code = << 0 >>

(***************************************************************************)
(* C2.  After any sequence of calls of save_forecasts_to_database the      *)
(* table holds at most one row per (user_id, product_id): the row of the   *)
(* most recent call that returned for that key, and none for a key no      *)
(* call returned for.                                                      *)
(***************************************************************************)
C2_OneRowPerKeyTheLatestWrite ==
    \A u \in Users, p \in Products :
        LET mine == { i \in 1 .. Len(hist.writes) :
                        hist.writes[i].user_id = u /\ hist.writes[i].product_id = p }
            last == CHOOSE i \in mine : \A j \in mine : j <= i
        IN  /\ Cardinality(RowsOf(committed, u, p)) <= 1
            /\ mine = {} => RowsOf(committed, u, p) = {}
            /\ mine # {} => RowsOf(committed, u, p) = { hist.writes[last] }

\* the same key written twice with different summaries: the second one stays
C2_Witness ==
    /\ pc = "caller"
    /\ Len(hist.writes) = 2
    /\ hist.writes[1].product_id = hist.writes[2].product_id
    /\ hist.writes[1] # hist.writes[2]
    /\ committed = { hist.writes[2] }

(***************************************************************************)
(* C3.  The delete and the insert of save_forecasts_to_database take       *)
(* effect together or not at all: nothing is committed before the commit;  *)
(* a call that returns has replaced the rows of its key by its row and     *)
(* left every other row; a call that raises (at the cursor, the delete,    *)
(* the insert or the commit) has called rollback, leaves no transaction    *)
(* open, propagates an exception, and leaves the committed table as it was *)
(* when the call began.                                                    *)
(***************************************************************************)
C3_SaveIsAtomic ==
    /\ pc \in {"save_delete", "save_insert", "save_commit", "save_except",
               "save_raised"} => committed = hist.before
    /\ pc = "save_raised" =>
         /\ raised # "none"
         /\ hist.failedAt \in {"cursor", "delete", "insert", "commit"}
         /\ hist.rolledBack
         /\ ~inTxn
         /\ work = committed
    /\ pc = "save_returned" =>
         /\ raised = "none"
         /\ committed = (hist.before \ RowsOf(hist.before, arg, product_id))
                            \cup { hist.row }

\* the insert fails after the delete of an existing summary: it is still there
C3_Witness ==
    /\ pc = "save_raised"
    /\ hist.failedAt = "insert"
    /\ RowsOf(committed, arg, product_id) # {}
    /\ committed = hist.before

(***************************************************************************)
(* C4.  Every row written has expires_at exactly 24 hours after            *)
(* generated_at, whatever time passes between the readings of the clock.   *)
(***************************************************************************)
C4_ExpiresExactly24HoursAfterGenerated ==
    \A r \in committed \cup work :
        r.expires_at - r.generated_at = HoursToExpiry

(***************************************************************************)
(* C5, as claimed.  A product with fewer than 2 distinct dates is counted  *)
(* in total_products: total_products is the number of products fetched.    *)
(***************************************************************************)
C5_SkippedProductCountedInTotal ==
    (total_products # << >> /\ SkippedIds(sales_data) # {}) =>
        total_products = << Cardinality(FetchedIds(sales_data)) >>

(***************************************************************************)
(* C5, amended.  A product with fewer than 2 distinct dates is skipped:    *)
(* train_and_forecast is never called for it, no row is written for it,    *)
(* the skipping raises nothing, and neither total_products (the number of  *)
(* products with at least 2 distinct dates) nor successful_forecasts       *)
(* counts it.                                                              *)
(***************************************************************************)
C5_SkippedProductExcluded ==
    (hist.fetched /\ ~Malformed(sales_data)) =>
        /\ \A p \in SkippedIds(sales_data) :
             /\ p \notin hist.attempted
             /\ p \notin CleanedIds
             /\ p \notin WrittenIds
             /\ RowsOf(committed \cup work, arg, p) = {}
        /\ pc \notin {"fetch", "clean"} => raised # "ValueError"
        /\ (GoodIds(sales_data) = {} /\ pc = "done") => exit_code = << 0 >>
        /\ total_products # << >> =>
             /\ total_products = << Cardinality(GoodIds(sales_data)) >>
             /\ successful_forecasts[1] <= Cardinality(GoodIds(sales_data))
             /\ RunOver => successful_forecasts = << Cardinality(WrittenIds) >>

\* a skipped product beside forecast ones: the counters leave it out
C5_Witness ==
    /\ pc = "done"
    /\ SkippedIds(sales_data) # {}
    /\ Cardinality(FetchedIds(sales_data)) = 3
    /\ total_products = << 2 >>
    /\ successful_forecasts = << 2 >>
    /\ exit_code = << 0 >>

(***************************************************************************)
(* C6.  A run that acquired a connection acquired exactly one, and when    *)
(* the run ends the connection has been closed after its open transaction  *)
(* was committed or rolled back.                                           *)
(***************************************************************************)
C6_ConnectionClosedAfterCommitOrRollback ==
    (pc \in {"main_end", "done"} /\ hist.connects > 0) =>
        /\ hist.connects = 1
        /\ hist.closes = 1
        /\ connection = "closed"
        /\ ~hist.txnAtClose

(***************************************************************************)
(* C7.  A run whose fetch returns no record, or only products with fewer   *)
(* than 2 distinct dates, returns early with a warning and without error:  *)
(* no forecast is attempted, no statement is sent for forecast_data (no    *)
(* cursor, delete, insert, commit or rollback), the table is unchanged,    *)
(* the loop is never entered, and main exits with code 0.                  *)
(***************************************************************************)
C7_NothingToForecastTouchesNothing ==
    (hist.fetched /\ ~Malformed(sales_data) /\ GoodIds(sales_data) = {}) =>
        /\ hist.attempted = {}
        /\ hist.storeOps = {}
        /\ committed = {} /\ work = {}
        /\ raised = "none"
        /\ total_products = << >>
        /\ pc \in {"clean", "finally", "main_end", "done"}
        /\ RunOver =>
             hist.log = { IF sales_data = << >> THEN "No sales data found"
                          ELSE "No valid data for forecasting" }
        /\ pc = "done" => exit_code = << 0 >> /\ output = "success"

\* the fetch returned no record and the run is over
C7_Witness ==
    /\ pc = "done"
    /\ hist.fetched
    /\ sales_data = << >>
    /\ hist.log = {"No sales data found"}
    /\ hist.closes = 1
    /\ exit_code = << 0 >>

(***************************************************************************)
(* C8.  For the records of one product in any order, with duplicate dates, *)
(* the cleaned series has every date of the input once, dates strictly     *)
(* ascending, and the quantity kept for a date is that of the first record *)
(* of the date after sorting the records by date ascending (records of one *)
(* date in input order), null read as 0, before capping.                   *)
(***************************************************************************)
C8_FirstOccurrenceAfterSortIsKept ==
    (pc = "returned" /\ CleanedRows # << >>) =>
        /\ \A i \in 1 .. Len(CleanedRows) - 1 : CleanedRows[i].ds < CleanedRows[i + 1].ds
        /\ { CleanedRows[i].ds : i \in 1 .. Len(CleanedRows) }
               = { ToDatetime(d) : d \in InputDates(arg) }
        /\ \A i \in 1 .. Len(CleanedRows) :
             LET y == CleanedRows[i].y
                 kept == FirstAfterSort(arg, DateOf(arg, CleanedRows[i].ds))
             IN  IF y.kind = "int" THEN y.v = kept
                 ELSE ExceedsThreshold(kept, y.n, y.sum, y.sumsq)

\* unsorted input with two different quantities for one date
C8_Witness ==
    /\ pc = "returned"
    /\ CleanedRows # << >>
    /\ \E i, j \in 1 .. Len(arg) :
         /\ i < j
         /\ arg[i].date = arg[j].date
         /\ arg[i].quantity_sold # arg[j].quantity_sold
    /\ \E i \in 1 .. Len(arg) - 1 : arg[i].date > arg[i + 1].date

(***************************************************************************)
(* C9.  For all input quantities, null and negative ones included, every   *)
(* value of a cleaned series is >= 0, and when the standard deviation of   *)
(* the quantities is > 0 no value exceeds mean + 3*std; capping drops no   *)
(* point.                                                                  *)
(***************************************************************************)
C9_CleanedValuesNonNegativeAndCapped ==
    (pc = "returned" /\ CleanedRows # << >>) =>
        LET dates == InputDates(arg)
            n == Cardinality(dates)
            kept == [d \in dates |-> FirstAfterSort(arg, d)]
            RECURSIVE Sum(_, _)
            Sum(f, ds) == IF ds = {} THEN 0
                          ELSE LET d == CHOOSE x \in ds : TRUE
                               IN  f[d] + Sum(f, ds \ {d})
            s == Sum(kept, dates)
            q == Sum([d \in dates |-> kept[d] * kept[d]], dates)
        IN  /\ Len(CleanedRows) = n
            /\ \A i \in 1 .. Len(CleanedRows) :
                 LET y == CleanedRows[i].y
                 IN  IF y.kind = "int"
                     THEN /\ y.v >= 0
                          /\ StdPositive(n, s, q) => ~ExceedsThreshold(y.v, n, s, q)
                     ELSE /\ y.n = n /\ y.sum = s /\ y.sumsq = q
                          /\ ThresholdNonNegative(n, s, q)

(***************************************************************************)
(* C10.  For every non-empty list of horizons, in any order, trend_status  *)
(* is the status of the prediction made for the longest horizon.           *)
(***************************************************************************)
C10_TrendFromLongestHorizon ==
    pc = "returned" =>
        ret.trend_status = TrendStatus(arg.model, arg.n + MaxOf(arg.periods))

====
